---- MODULE Spec2Model ----
(***************************************************************************)
(* Model of dmabuf-sharing.c: main() as a sequential program (pc), the     *)
(* DRM side (dumb allocations, dma-buf descriptors, framebuffers, planes)  *)
(* and the V4L2 side (queued and completed capture buffers).               *)
(***************************************************************************)
EXTENDS Integers, Sequences, FiniteSets, TLC

\* ---- bounds of the model ----
MaxBuffers == 3      \* largest -b buffer_count explored
MaxFrames == 5       \* frames the producer completes before it stalls

\* ---- pixel layouts (fourcc tags) and the consumer's hardware ----
Fourcc == {1, 2}

CrtcIds == <<41, 42>>

PlaneA == [plane_id |-> 31, possible_crtcs |-> 1, formats |-> <<1>>]
PlaneB == [plane_id |-> 32, possible_crtcs |-> 3, formats |-> <<2, 1>>]
PlaneC == [plane_id |-> 33, possible_crtcs |-> 2, formats |-> <<2>>]

PlaneLists == { <<>>, <<PlaneA, PlaneB>>, <<PlaneC, PlaneB>>, <<PlaneB, PlaneA>> }

VARIABLES
    pc,           \* position of main()
    ret,          \* main's ret: result of the last call
    exit_status,  \* -1 while running, else the process's exit status
    fault,        \* "none" or the call whose failure ended the program
    s,            \* struct setup
    i,            \* loop index of the setup loops
    buffer,       \* struct buffer buffer[s.buffer_count]
    stream,       \* struct stream (current_buffer)
    buf,          \* buf.index of the loop's struct v4l2_buffer
    gem,          \* live dumb allocations (bo handles)
    dmabufs,      \* open dma-buf descriptors
    fbs,          \* registered framebuffers
    rlog,         \* resource calls issued so far, in order
    planes,       \* plane list reported by drmModeGetPlaneResources
    plane_fb,     \* framebuffer shown on the chosen plane, 0 = none
    queued,       \* slots queued to the producer, in queueing order
    slot_fd,      \* dma-buf descriptor the producer has bound to each slot
    done,         \* slots the producer completed, awaiting VIDIOC_DQBUF
    streaming,    \* VIDIOC_STREAMON succeeded
    framesLeft,   \* frames the producer will still complete
    drmPending,   \* an unread event is pending on the DRM descriptor
    presented,    \* slots presented by the loop, in order
    resubmits,    \* slots re-submitted by the loop: [step, index]
    ops,          \* calls issued by the loop: dqbuf, setplane, qbuf
    inOrder,      \* the producer completed slots in queueing order so far
    envFault      \* a call failed for a reason outside the program

vars == << pc, ret, exit_status, fault, s, i, buffer, stream, buf, gem,
           dmabufs, fbs, rlog, planes, plane_fb, queued, slot_fd, done,
           streaming, framesLeft, drmPending, presented, resubmits, ops, inOrder,
           envFault >>

progVars == << pc, ret, exit_status, fault, s, i, buffer, stream, buf >>
drmVars == << gem, dmabufs, fbs, rlog, planes, plane_fb >>
v4lVars == << queued, slot_fd, done, streaming, framesLeft, inOrder >>
logVars == << presented, resubmits, ops >>

\* ---- helpers ----
Range(q) == { q[k] : k \in 1..Len(q) }

Remove(q, k) == [ j \in 1..(Len(q) - 1) |-> IF j < k THEN q[j] ELSE q[j + 1] ]

Bit(mask, k) == (mask \div (2 ^ k)) % 2 = 1

Count(log, op) == Cardinality({ k \in 1..Len(log) : log[k][1] = op })

\* smallest identifier >= base the kernel has not handed out
FreshId(used, base) == CHOOSE n \in base..(base + Cardinality(used)) : n \notin used

\* ---- construction ----
Init ==
    /\ pc = "parse_args"
    /\ ret = 0
    /\ exit_status = -1
    /\ fault = "none"
    /\ s = [ conId |-> 0, crtcId |-> 0, crtcIdx |-> 0, planeId |-> 0,
             in_fourcc |-> 0, out_fourcc |-> 0, buffer_count |-> 0 ]
    /\ i = 0
    /\ buffer = << >>
    /\ stream = [ current_buffer |-> 0 ]
    /\ buf = 0
    /\ gem = {}
    /\ dmabufs = {}
    /\ fbs = {}
    /\ rlog = << >>
    /\ planes = << >>
    /\ plane_fb = 0
    /\ queued = << >>
    /\ slot_fd = << >>
    /\ done = << >>
    /\ streaming = FALSE
    /\ framesLeft = MaxFrames
    /\ drmPending = FALSE
    /\ presented = << >>
    /\ resubmits = << >>
    /\ ops = [ dqbuf |-> 0, setplane |-> 0, qbuf |-> 0 ]
    /\ inOrder = TRUE
    /\ envFault = FALSE

\* BYE_ON(cond, ...) with cond true: abort()
Bye(call, env) ==
    /\ pc' = "aborted"
    /\ ret' = -1
    /\ exit_status' = 134
    /\ fault' = call
    /\ envFault' = (envFault \/ env)

\* the program runs on: everything but the program counter state is kept
Go(next) ==
    /\ pc' = next
    /\ ret' = 0
    /\ UNCHANGED << exit_status, fault, envFault >>

\* where a counted setup loop goes when its index is k
LoopNext(k, body, after) == IF k < s.buffer_count THEN body ELSE after

\* ---- parse_args and the argument checks of main ----
OutputArgs == { <<0, 0>>, <<7, 41>>, <<7, 42>>, <<7, 99>> }

ParseArgsOk ==
    /\ pc = "parse_args"
    /\ \E b \in 0..MaxBuffers, F \in {0} \cup Fourcc, o \in OutputArgs :
         s' = [ s EXCEPT !.buffer_count = b, !.out_fourcc = F,
                         !.conId = o[1], !.crtcId = o[2] ]
    /\ Go("open")
    /\ UNCHANGED << i, buffer, stream, buf >>
    /\ UNCHANGED << drmVars, v4lVars, logVars, drmPending >>

ParseArgsFail ==
    /\ pc = "parse_args"
    /\ Bye("parse_args", FALSE)
    /\ UNCHANGED << s, i, buffer, stream, buf >>
    /\ UNCHANGED << drmVars, v4lVars, logVars, drmPending >>

\* ---- drmOpen, open, VIDIOC_QUERYCAP ----
OpenOk ==
    /\ pc = "open"
    /\ Go("negotiate")
    /\ UNCHANGED << s, i, buffer, stream, buf >>
    /\ UNCHANGED << drmVars, v4lVars, logVars, drmPending >>

OpenFail ==
    /\ pc = "open"
    /\ Bye("open", TRUE)
    /\ UNCHANGED << s, i, buffer, stream, buf >>
    /\ UNCHANGED << drmVars, v4lVars, logVars, drmPending >>

\* ---- VIDIOC_G_FMT, VIDIOC_S_FMT, VIDIOC_G_FMT ----
\* in_fourcc is read back from the producer after the request buffers call;
\* the value is fixed here, by the final G_FMT
NegotiateOk ==
    /\ pc = "negotiate"
    /\ \E f \in Fourcc : s' = [ s EXCEPT !.in_fourcc = f ]
    /\ Go("reqbufs")
    /\ UNCHANGED << i, buffer, stream, buf >>
    /\ UNCHANGED << drmVars, v4lVars, logVars, drmPending >>

NegotiateFail ==
    /\ pc = "negotiate"
    /\ Bye("s_fmt", TRUE)
    /\ UNCHANGED << s, i, buffer, stream, buf >>
    /\ UNCHANGED << drmVars, v4lVars, logVars, drmPending >>

\* ---- VIDIOC_REQBUFS ----
ReqbufsOk ==
    /\ pc = "reqbufs"
    /\ Go("alloc_array")
    /\ UNCHANGED << s, i, buffer, stream, buf >>
    /\ UNCHANGED << drmVars, v4lVars, logVars, drmPending >>

\* the call fails, or the producer grants fewer slots than asked for
ReqbufsFail ==
    /\ pc = "reqbufs"
    /\ Bye("reqbufs", TRUE)
    /\ UNCHANGED << s, i, buffer, stream, buf >>
    /\ UNCHANGED << drmVars, v4lVars, logVars, drmPending >>

\* ---- struct buffer buffer[s.buffer_count] ----
NoBuffer == [ bo_handle |-> 0, fb_handle |-> 0, dbuf_fd |-> 0 ]

AllocArray ==
    /\ pc = "alloc_array"
    /\ buffer' = [ k \in 0..(s.buffer_count - 1) |-> NoBuffer ]
    /\ i' = 0
    /\ Go(LoopNext(0, "buffer_create", "find_crtc"))
    /\ UNCHANGED << s, stream, buf >>
    /\ UNCHANGED << drmVars, v4lVars, logVars, drmPending >>

\* a variable-length array of zero elements is undefined: the build may
\* carry on with an empty array (AllocArray) or fault
AllocArrayFault ==
    /\ pc = "alloc_array"
    /\ s.buffer_count = 0
    /\ pc' = "aborted"
    /\ ret' = 0
    /\ exit_status' = 139
    /\ fault' = "alloc_array"
    /\ UNCHANGED << envFault, s, i, buffer, stream, buf >>
    /\ UNCHANGED << drmVars, v4lVars, logVars, drmPending >>

\* ---- buffer_create ----
CreateOutcomes == { "ok", "create_dumb_fails", "prime_fails", "addfb2_fails" }

\* the layout buffer_create registers the framebuffer with: out_fourcc, or
\* in_fourcc when no output layout was given
FbFourcc(st) == IF st.out_fourcc # 0 THEN st.out_fourcc ELSE st.in_fourcc

\* buffer_create with the AddFB2 failure path jumping to fail_gem: the
\* exported descriptor is not closed
buffer_create_skips_close(b, outcome) ==
    LET h == FreshId(gem, 1)
        fd == FreshId(dmabufs, 5)
        fb == FreshId(fbs, 50)
    IN  IF outcome = "create_dumb_fails"
        THEN [ ret |-> -1, b |-> b, gem |-> gem, dmabufs |-> dmabufs,
               fbs |-> fbs, log |-> << >> ]
        ELSE IF outcome = "prime_fails"
        THEN [ ret |-> -1, b |-> [ b EXCEPT !.bo_handle = h ],
               gem |-> gem, dmabufs |-> dmabufs, fbs |-> fbs,
               log |-> << <<"create_dumb", h>>, <<"destroy_dumb", h>> >> ]
        ELSE IF outcome = "addfb2_fails"
        THEN [ ret |-> -1,
               b |-> [ b EXCEPT !.bo_handle = h, !.dbuf_fd = fd ],
               gem |-> gem, dmabufs |-> dmabufs \cup {fd}, fbs |-> fbs,
               log |-> << <<"create_dumb", h>>, <<"prime", fd>>,
                          <<"destroy_dumb", h>> >> ]
        ELSE [ ret |-> 0,
               b |-> [ bo_handle |-> h, fb_handle |-> fb, dbuf_fd |-> fd ],
               gem |-> gem \cup {h}, dmabufs |-> dmabufs \cup {fd},
               fbs |-> fbs \cup {fb},
               log |-> << <<"create_dumb", h>>, <<"prime", fd>>,
                          <<"addfb2", fb, FbFourcc(s)>> >> ]

\* the result of buffer_create on entry b: its return value, the entry as it
\* leaves it, the kernel's resources and the resource calls it issued
buffer_create(b, outcome) ==
    LET h == FreshId(gem, 1)
        fd == FreshId(dmabufs, 5)
        fb == FreshId(fbs, 50)
    IN  IF outcome = "create_dumb_fails"
        THEN [ ret |-> -1, b |-> b, gem |-> gem, dmabufs |-> dmabufs,
               fbs |-> fbs, log |-> << >> ]
        ELSE IF outcome = "prime_fails"
        THEN [ ret |-> -1, b |-> [ b EXCEPT !.bo_handle = h ],
               gem |-> gem, dmabufs |-> dmabufs, fbs |-> fbs,
               log |-> << <<"create_dumb", h>>, <<"destroy_dumb", h>> >> ]
        ELSE IF outcome = "addfb2_fails"
        THEN [ ret |-> -1,
               b |-> [ b EXCEPT !.bo_handle = h, !.dbuf_fd = fd ],
               gem |-> gem, dmabufs |-> dmabufs, fbs |-> fbs,
               log |-> << <<"create_dumb", h>>, <<"prime", fd>>,
                          <<"close", fd>>, <<"destroy_dumb", h>> >> ]
        ELSE [ ret |-> 0,
               b |-> [ bo_handle |-> h, fb_handle |-> fb, dbuf_fd |-> fd ],
               gem |-> gem \cup {h}, dmabufs |-> dmabufs \cup {fd},
               fbs |-> fbs \cup {fb},
               log |-> << <<"create_dumb", h>>, <<"prime", fd>>,
                          <<"addfb2", fb, FbFourcc(s)>> >> ]

\* one iteration of the pool construction loop of main
BufferCreate(outcome) ==
    LET r == buffer_create(buffer[i], outcome)
    IN  /\ buffer' = [ buffer EXCEPT ![i] = r.b ]
        /\ gem' = r.gem
        /\ dmabufs' = r.dmabufs
        /\ fbs' = r.fbs
        /\ rlog' = rlog \o r.log
        /\ IF r.ret # 0
           THEN Bye("buffer_create", TRUE) /\ i' = i
           ELSE Go(LoopNext(i + 1, "buffer_create", "find_crtc")) /\ i' = i + 1

BufferCreateOk ==
    /\ pc = "buffer_create"
    /\ BufferCreate("ok")
    /\ UNCHANGED << s, stream, buf, planes, plane_fb >>
    /\ UNCHANGED << v4lVars, logVars, drmPending >>

BufferCreateFail ==
    /\ pc = "buffer_create"
    /\ \E outcome \in CreateOutcomes \ {"ok"} : BufferCreate(outcome)
    /\ UNCHANGED << s, stream, buf, planes, plane_fb >>
    /\ UNCHANGED << v4lVars, logVars, drmPending >>

\* ---- find_crtc ----
\* zero-based position of id in the CRTC list, -1 when it is not there
CrtcIndex(crtcs, id) ==
    IF \E k \in 1..Len(crtcs) : crtcs[k] = id
    THEN (CHOOSE k \in 1..Len(crtcs) :
              crtcs[k] = id /\ \A j \in 1..(k - 1) : crtcs[j] # id) - 1
    ELSE -1

\* find_crtc returns 0: with no connector given, the first connector with an
\* active CRTC is taken (connector 7 on one of the CRTCs)
FindCrtcOk ==
    /\ pc = "find_crtc"
    /\ \E c \in (IF s.conId = 0 THEN Range(CrtcIds) ELSE {s.crtcId}) :
         /\ CrtcIndex(CrtcIds, c) # -1
         /\ s' = [ s EXCEPT !.conId = 7, !.crtcId = c,
                            !.crtcIdx = CrtcIndex(CrtcIds, c) ]
    /\ Go("find_plane")
    /\ UNCHANGED << i, buffer, stream, buf >>
    /\ UNCHANGED << drmVars, v4lVars, logVars, drmPending >>

\* find_crtc returns -1: the given CRTC is not in the list
FindCrtcNotFound ==
    /\ pc = "find_crtc"
    /\ s.conId # 0
    /\ CrtcIndex(CrtcIds, s.crtcId) = -1
    /\ s' = [ s EXCEPT !.crtcIdx = -1 ]
    /\ Bye("find_crtc", FALSE)
    /\ UNCHANGED << i, buffer, stream, buf >>
    /\ UNCHANGED << drmVars, v4lVars, logVars, drmPending >>

\* find_crtc returns -1: resources, connector or modes are not available
FindCrtcFail ==
    /\ pc = "find_crtc"
    /\ Bye("find_crtc", TRUE)
    /\ UNCHANGED << s, i, buffer, stream, buf >>
    /\ UNCHANGED << drmVars, v4lVars, logVars, drmPending >>

\* no connector given and none has an active CRTC: exit(1)
FindCrtcExit ==
    /\ pc = "find_crtc"
    /\ s.conId = 0
    /\ pc' = "exited"
    /\ ret' = -1
    /\ exit_status' = 1
    /\ fault' = "find_crtc"
    /\ envFault' = TRUE
    /\ UNCHANGED << s, i, buffer, stream, buf >>
    /\ UNCHANGED << drmVars, v4lVars, logVars, drmPending >>

\* ---- find_plane ----
\* the scan without the possible_crtcs test
RECURSIVE plane_scan_any_crtc(_, _, _)
plane_scan_any_crtc(pl, st, k) ==
    IF k > Len(pl) THEN k
    ELSE IF st.out_fourcc \notin Range(pl[k].formats)
         THEN plane_scan_any_crtc(pl, st, k + 1)
    ELSE k

\* the scan of find_plane from list position k (the code's i + 1): the
\* position it stops at, Len(pl) + 1 when it runs off the list
RECURSIVE plane_scan(_, _, _)
plane_scan(pl, st, k) ==
    IF k > Len(pl) THEN k
    ELSE IF ~Bit(pl[k].possible_crtcs, st.crtcIdx) THEN plane_scan(pl, st, k + 1)
    ELSE IF st.out_fourcc \notin Range(pl[k].formats) THEN plane_scan(pl, st, k + 1)
    ELSE k

find_plane(pl, st) ==
    LET k == plane_scan(pl, st, 1)
    IN  [ ret |-> IF k = Len(pl) + 1 THEN -1 ELSE 0,
          planeId |-> IF k <= Len(pl) THEN pl[k].plane_id ELSE st.planeId ]

FindPlaneOk ==
    /\ pc = "find_plane"
    /\ \E pl \in PlaneLists :
         /\ find_plane(pl, s).ret = 0
         /\ planes' = pl
         /\ s' = [ s EXCEPT !.planeId = find_plane(pl, s).planeId ]
    /\ i' = 0
    /\ Go(LoopNext(0, "qbuf", "streamon"))
    /\ UNCHANGED << buffer, stream, buf, gem, dmabufs, fbs, rlog, plane_fb >>
    /\ UNCHANGED << v4lVars, logVars, drmPending >>

\* the scan finds no plane
FindPlaneNone ==
    /\ pc = "find_plane"
    /\ \E pl \in PlaneLists :
         /\ find_plane(pl, s).ret # 0
         /\ planes' = pl
    /\ Bye("find_plane", FALSE)
    /\ UNCHANGED << s, i, buffer, stream, buf, gem, dmabufs, fbs, rlog, plane_fb >>
    /\ UNCHANGED << v4lVars, logVars, drmPending >>

\* drmModeGetPlaneResources fails
FindPlaneFail ==
    /\ pc = "find_plane"
    /\ Bye("get_plane_resources", TRUE)
    /\ UNCHANGED << s, i, buffer, stream, buf >>
    /\ UNCHANGED << drmVars, v4lVars, logVars, drmPending >>

\* drmModeGetPlane returns NULL for the first plane: the test that follows
\* looks at the list, not at the plane, and the plane is dereferenced
FindPlaneNullPlane ==
    /\ pc = "find_plane"
    /\ \E pl \in PlaneLists : pl # << >> /\ planes' = pl
    /\ pc' = "aborted"
    /\ ret' = 0
    /\ exit_status' = 139
    /\ fault' = "get_plane"
    /\ envFault' = TRUE
    /\ UNCHANGED << s, i, buffer, stream, buf, gem, dmabufs, fbs, rlog, plane_fb >>
    /\ UNCHANGED << v4lVars, logVars, drmPending >>

\* ---- the initial VIDIOC_QBUF of every slot ----
\* every slot is handed the descriptor of the first buffer
QbufInitOk_first_fd ==
    /\ pc = "qbuf"
    /\ queued' = Append(queued, i)
    /\ slot_fd' = (i :> buffer[0].dbuf_fd) @@ slot_fd
    /\ i' = i + 1
    /\ Go(LoopNext(i + 1, "qbuf", "streamon"))
    /\ UNCHANGED << s, buffer, stream, buf >>
    /\ UNCHANGED << done, streaming, framesLeft, inOrder >>
    /\ UNCHANGED << drmVars, logVars, drmPending >>

QbufInitOk ==
    /\ pc = "qbuf"
    /\ queued' = Append(queued, i)
    /\ slot_fd' = (i :> buffer[i].dbuf_fd) @@ slot_fd
    /\ i' = i + 1
    /\ Go(LoopNext(i + 1, "qbuf", "streamon"))
    /\ UNCHANGED << s, buffer, stream, buf >>
    /\ UNCHANGED << done, streaming, framesLeft, inOrder >>
    /\ UNCHANGED << drmVars, logVars, drmPending >>

\* a failed initial VIDIOC_QBUF that is only warned about: the loop goes on
QbufInitFail_warn ==
    /\ pc = "qbuf"
    /\ pc' = LoopNext(i + 1, "qbuf", "streamon")
    /\ i' = i + 1
    /\ ret' = -1
    /\ fault' = "qbuf_init"
    /\ envFault' = TRUE
    /\ UNCHANGED << exit_status, s, buffer, stream, buf >>
    /\ UNCHANGED << drmVars, v4lVars, logVars, drmPending >>

QbufInitFail ==
    /\ pc = "qbuf"
    /\ Bye("qbuf_init", TRUE)
    /\ UNCHANGED << s, i, buffer, stream, buf >>
    /\ UNCHANGED << drmVars, v4lVars, logVars, drmPending >>

\* ---- VIDIOC_STREAMON and the set-up of stream ----
StreamOnOk ==
    /\ pc = "streamon"
    /\ streaming' = TRUE
    /\ stream' = [ current_buffer |-> -1 ]
    /\ Go("poll")
    /\ UNCHANGED << s, i, buffer, buf >>
    /\ UNCHANGED << queued, slot_fd, done, framesLeft, inOrder >>
    /\ UNCHANGED << drmVars, logVars, drmPending >>

StreamOnFail ==
    /\ pc = "streamon"
    /\ Bye("streamon", TRUE)
    /\ UNCHANGED << s, i, buffer, stream, buf >>
    /\ UNCHANGED << drmVars, v4lVars, logVars, drmPending >>

\* ---- the handoff loop: while ((ret = poll(fds, 2, 5000)) > 0) ----
LoopPcs == { "poll", "dqbuf", "setplane", "requeue", "assign" }

\* slots the producer owns: queued for capture, or completed and not yet
\* dequeued
ProducerOwned == Range(queued) \cup Range(done)

\* poll returns > 0: a completed frame or a DRM event is readable
PollReady ==
    /\ pc = "poll"
    /\ done # << >> \/ drmPending
    /\ pc' = "dqbuf"
    /\ ret' = 1
    /\ UNCHANGED << exit_status, fault, envFault >>
    /\ UNCHANGED << s, i, buffer, stream, buf >>
    /\ UNCHANGED << drmVars, v4lVars, logVars, drmPending >>

\* a loop condition of >= 0: a poll that times out enters the loop body
PollTimeout_enters ==
    /\ pc = "poll"
    /\ done = << >> /\ ~drmPending
    /\ pc' = "dqbuf"
    /\ ret' = 0
    /\ UNCHANGED << exit_status, fault, envFault >>
    /\ UNCHANGED << s, i, buffer, stream, buf >>
    /\ UNCHANGED << drmVars, v4lVars, logVars, drmPending >>

\* poll returns 0 after 5000 ms with nothing readable: the loop ends and
\* main returns 0
PollTimeout ==
    /\ pc = "poll"
    /\ done = << >> /\ ~drmPending
    /\ pc' = "done"
    /\ ret' = 0
    /\ exit_status' = 0
    /\ UNCHANGED << fault, envFault >>
    /\ UNCHANGED << s, i, buffer, stream, buf >>
    /\ UNCHANGED << drmVars, v4lVars, logVars, drmPending >>

\* poll returns -1 (interrupted): the loop ends and main returns 0
PollError ==
    /\ pc = "poll"
    /\ pc' = "done"
    /\ ret' = -1
    /\ exit_status' = 0
    /\ envFault' = TRUE
    /\ UNCHANGED << fault >>
    /\ UNCHANGED << s, i, buffer, stream, buf >>
    /\ UNCHANGED << drmVars, v4lVars, logVars, drmPending >>

\* VIDIOC_DQBUF on the blocking descriptor: returns the oldest completed slot
DqbufOk ==
    /\ pc = "dqbuf"
    /\ done # << >>
    /\ buf' = Head(done)
    /\ done' = Tail(done)
    /\ ops' = [ ops EXCEPT !.dqbuf = @ + 1 ]
    /\ Go("setplane")
    /\ UNCHANGED << s, i, buffer, stream >>
    /\ UNCHANGED << queued, slot_fd, streaming, framesLeft, inOrder >>
    /\ UNCHANGED << drmVars, presented, resubmits, drmPending >>

\* a VIDIOC_DQBUF failure that is swallowed: the loop goes back to poll
DqbufFail_retry ==
    /\ pc = "dqbuf"
    /\ ops' = [ ops EXCEPT !.dqbuf = @ + 1 ]
    /\ ops.dqbuf < MaxFrames
    /\ pc' = "poll"
    /\ ret' = -1
    /\ fault' = "dqbuf"
    /\ envFault' = TRUE
    /\ UNCHANGED << exit_status, s, i, buffer, stream, buf >>
    /\ UNCHANGED << drmVars, v4lVars, presented, resubmits, drmPending >>

DqbufFail ==
    /\ pc = "dqbuf"
    /\ ops' = [ ops EXCEPT !.dqbuf = @ + 1 ]
    /\ Bye("dqbuf", TRUE)
    /\ UNCHANGED << s, i, buffer, stream, buf >>
    /\ UNCHANGED << drmVars, v4lVars, presented, resubmits, drmPending >>

\* a present that also removes the framebuffer it replaces on the plane
SetPlaneOk_removes_old ==
    /\ pc = "setplane"
    /\ plane_fb' = buffer[buf].fb_handle
    /\ fbs' = fbs \ {plane_fb}
    /\ rlog' = IF plane_fb = 0 THEN rlog ELSE Append(rlog, << "rmfb", plane_fb >>)
    /\ presented' = Append(presented, buf)
    /\ ops' = [ ops EXCEPT !.setplane = @ + 1 ]
    /\ Go("requeue")
    /\ UNCHANGED << s, i, buffer, stream, buf >>
    /\ UNCHANGED << gem, dmabufs, planes >>
    /\ UNCHANGED << v4lVars, resubmits, drmPending >>

\* drmModeSetPlane(..., buffer[buf.index].fb_handle, ...)
SetPlaneOk ==
    /\ pc = "setplane"
    /\ plane_fb' = buffer[buf].fb_handle
    /\ presented' = Append(presented, buf)
    /\ ops' = [ ops EXCEPT !.setplane = @ + 1 ]
    /\ Go("requeue")
    /\ UNCHANGED << s, i, buffer, stream, buf >>
    /\ UNCHANGED << gem, dmabufs, fbs, rlog, planes >>
    /\ UNCHANGED << v4lVars, resubmits, drmPending >>

SetPlaneFail ==
    /\ pc = "setplane"
    /\ ops' = [ ops EXCEPT !.setplane = @ + 1 ]
    /\ Bye("setplane", TRUE)
    /\ UNCHANGED << s, i, buffer, stream, buf >>
    /\ UNCHANGED << drmVars, v4lVars, presented, resubmits, drmPending >>

\* if (stream.current_buffer != -1) is false: nothing is re-submitted
RequeueSkip ==
    /\ pc = "requeue"
    /\ stream.current_buffer = -1
    /\ Go("assign")
    /\ UNCHANGED << s, i, buffer, stream, buf >>
    /\ UNCHANGED << drmVars, v4lVars, logVars, drmPending >>

\* buf is cleared, buf.index = stream.current_buffer, VIDIOC_QBUF succeeds
RequeueOk ==
    /\ pc = "requeue"
    /\ stream.current_buffer # -1
    /\ stream.current_buffer \notin ProducerOwned
    /\ buf' = stream.current_buffer
    /\ queued' = Append(queued, stream.current_buffer)
    /\ slot_fd' = (stream.current_buffer :> buffer[stream.current_buffer].dbuf_fd)
                       @@ slot_fd
    /\ resubmits' = Append(resubmits, [ step |-> Len(presented),
                                        index |-> stream.current_buffer ])
    /\ ops' = [ ops EXCEPT !.qbuf = @ + 1 ]
    /\ Go("assign")
    /\ UNCHANGED << s, i, buffer, stream >>
    /\ UNCHANGED << done, streaming, framesLeft, inOrder >>
    /\ UNCHANGED << drmVars, presented, drmPending >>

\* VIDIOC_QBUF of a slot the producer already owns is refused by the producer
RequeueRejected ==
    /\ pc = "requeue"
    /\ stream.current_buffer # -1
    /\ stream.current_buffer \in ProducerOwned
    /\ buf' = stream.current_buffer
    /\ ops' = [ ops EXCEPT !.qbuf = @ + 1 ]
    /\ Bye("qbuf", FALSE)
    /\ UNCHANGED << s, i, buffer, stream >>
    /\ UNCHANGED << drmVars, v4lVars, presented, resubmits, drmPending >>

\* VIDIOC_QBUF fails for a reason of the producer's
RequeueFail ==
    /\ pc = "requeue"
    /\ stream.current_buffer # -1
    /\ buf' = stream.current_buffer
    /\ ops' = [ ops EXCEPT !.qbuf = @ + 1 ]
    /\ Bye("qbuf", TRUE)
    /\ UNCHANGED << s, i, buffer, stream >>
    /\ UNCHANGED << drmVars, v4lVars, presented, resubmits, drmPending >>

\* stream.current_buffer = buf.index
Assign ==
    /\ pc = "assign"
    /\ stream' = [ stream EXCEPT !.current_buffer = buf ]
    /\ Go("poll")
    /\ UNCHANGED << s, i, buffer, buf >>
    /\ UNCHANGED << drmVars, v4lVars, logVars, drmPending >>

\* ---- the two subsystems the loop waits on ----
\* the producer fills one of the slots queued to it
Complete ==
    /\ pc \in LoopPcs
    /\ streaming
    /\ framesLeft > 0
    /\ \E k \in 1..Len(queued) :
         /\ done' = Append(done, queued[k])
         /\ queued' = Remove(queued, k)
         /\ inOrder' = (inOrder /\ k = 1)
    /\ framesLeft' = framesLeft - 1
    /\ UNCHANGED << slot_fd, streaming, drmPending >>
    /\ UNCHANGED << progVars, drmVars, logVars, envFault >>

\* an event becomes readable on the DRM descriptor; the program never reads it
DrmEvent ==
    /\ pc \in LoopPcs
    /\ ~drmPending
    /\ drmPending' = TRUE
    /\ UNCHANGED << progVars, drmVars, v4lVars, logVars, envFault >>

\* ---- specifications ----
Setup ==
    \/ ParseArgsOk \/ ParseArgsFail
    \/ OpenOk \/ OpenFail
    \/ NegotiateOk \/ NegotiateFail
    \/ ReqbufsOk \/ ReqbufsFail
    \/ AllocArray \/ AllocArrayFault
    \/ BufferCreateOk \/ BufferCreateFail
    \/ FindCrtcOk \/ FindCrtcNotFound \/ FindCrtcFail \/ FindCrtcExit
    \/ FindPlaneOk \/ FindPlaneNone \/ FindPlaneFail \/ FindPlaneNullPlane
    \/ QbufInitOk \/ QbufInitFail
    \/ StreamOnOk \/ StreamOnFail

\* the steps of the loop that return without an outside failure
LoopStep ==
    \/ PollReady \/ PollTimeout
    \/ DqbufOk \/ SetPlaneOk
    \/ RequeueSkip \/ RequeueOk \/ RequeueRejected
    \/ Assign

LoopFault == PollError \/ DqbufFail \/ SetPlaneFail \/ RequeueFail

Next == Setup \/ LoopStep \/ LoopFault \/ Complete \/ DrmEvent

Spec == Init /\ [][Next]_vars

\* the loop is one thread of calls that return: poll within its 5000 ms, the
\* others at once when their result is available
LiveSpec == Spec /\ WF_vars(LoopStep)

\* ---- the buffer states of the handoff protocol, read off the state ----
Slots == DOMAIN buffer

Presenting(b) == plane_fb # 0 /\ buffer[b].fb_handle = plane_fb

ReadyForPresentation(b) == pc = "setplane" /\ buf = b

QueuedToProducer(b) == b \in ProducerOwned

Acquired == Count(rlog, "create_dumb") + Count(rlog, "prime") + Count(rlog, "addfb2")

Released == Count(rlog, "destroy_dumb") + Count(rlog, "close") + Count(rlog, "rmfb")

NothingHeld == gem = {} /\ dmabufs = {} /\ fbs = {}

LoopEnded == streaming /\ pc \in { "done", "aborted" }

\* C1: in every state of the handoff loop with a pool of N >= 2 slots, no
\* slot that is shown on the output (Presenting) or about to be shown
\* (ReadyForPresentation) is at the same time queued to the producer.
C1_NoOverlap ==
    (pc \in LoopPcs /\ s.buffer_count >= 2) =>
        \A b \in Slots :
            ~((Presenting(b) \/ ReadyForPresentation(b)) /\ QueuedToProducer(b))

\* C2: delay-by-one: every slot the loop re-submits in step k is the slot
\* that was presented by step k - 1, and never the slot step k presented.
C2_DelayByOne ==
    \A k \in 1..Len(resubmits) :
        /\ resubmits[k].step >= 2
        /\ resubmits[k].index = presented[resubmits[k].step - 1]
        /\ resubmits[k].index # presented[resubmits[k].step]

\* C3: with N = 2 and a producer completing slots in queueing order, the
\* presented slots alternate 0,1,0,1,... for the whole run.
C3_PingPong ==
    (s.buffer_count = 2 /\ inOrder) =>
        \A k \in 1..Len(presented) : presented[k] = (k - 1) % 2

\* C4: with N = 3 and a producer completing slots in queueing order, the
\* presented slots are 0,1,2,0,1,2,..., no step of the loop fails, and slot i
\* is re-submitted in the step that presents slot (i + 1) mod 3.
C4_RoundRobin ==
    (s.buffer_count = 3 /\ inOrder /\ ~envFault) =>
        /\ \A k \in 1..Len(presented) : presented[k] = (k - 1) % 3
        /\ fault \notin { "dqbuf", "setplane", "qbuf" }
        /\ \A k \in 1..Len(resubmits) :
               presented[resubmits[k].step] = (resubmits[k].index + 1) % 3

\* C5: pool construction is all-or-nothing: when creating a buffer fails,
\* every resource of the buffers created before it has been released when
\* the program stops, so releases equal acquisitions and nothing stays live.
C5_AllOrNothing ==
    fault = "buffer_create" => (NothingHeld /\ Released = Acquired)

\* C6: whenever the handoff loop has ended, by timeout or by a failure, no
\* buffer resource is still held: each buffer's framebuffer was removed, then
\* its descriptor closed, then its allocation destroyed.
C6_Teardown ==
    LoopEnded => (NothingHeld /\ Released = Acquired)

\* C7: when no plane of the chosen output supports the layout, the program
\* fails before any buffer resource call has been issued.
C7_ResolveBeforePool ==
    fault = "find_plane" => rlog = << >>

\* C8: a session that reaches streaming has N >= 2: a buffer count of 1 or
\* less is rejected before anything is allocated and before the loop.
C8_MinPool ==
    /\ streaming => s.buffer_count >= 2
    /\ (pc # "parse_args" /\ s.buffer_count <= 1) => rlog = << >>

\* what the loop has done to the buffers so far
LoopEffects == << ops, presented, resubmits, plane_fb, queued, done, stream >>

StreamFault == fault \in { "dqbuf", "setplane" }

\* C9: a failed VIDIOC_DQBUF or drmModeSetPlane in any iteration ends the
\* session: the program is aborted with a non-zero status, and after the
\* failure the loop dequeues, presents and re-submits nothing more.
C9_StreamFaultFatal ==
    /\ [](StreamFault => (pc = "aborted" /\ exit_status \notin { -1, 0 }))
    /\ [][StreamFault => UNCHANGED LoopEffects]_vars

C9_Witness ==
    /\ pc = "aborted"
    /\ fault = "dqbuf"
    /\ Len(presented) >= 2
    /\ resubmits # << >>

\* nothing is readable on either descriptor
Quiet == done = << >> /\ ~drmPending

C11_CursorTracksOutput ==
    (streaming /\ pc = "poll") =>
        stream.current_buffer =
            (IF presented = << >> THEN -1 ELSE presented[Len(presented)])

\* C12: an event on the DRM descriptor that wakes poll while the producer has
\* no completed frame starts no dequeue: the loop body is only entered with a
\* completed frame to collect.
C12_ConsumerEventIdle ==
    pc = "dqbuf" => done # << >>

\* the failures of the setup phase: format negotiation, request of producer
\* slots, buffer creation, connector/CRTC resolution, plane resolution and the
\* initial queueing
SetupFault ==
    fault \in { "s_fmt", "reqbufs", "buffer_create", "find_crtc", "find_plane",
                "get_plane_resources", "qbuf_init" }

\* C13: when a setup step has failed, the session has ended with a failure
\* status before the loop: streaming was not started and no frame has been
\* dequeued or presented, and none ever is.
C13_SetupFailureAborts ==
    SetupFault =>
        /\ pc \in { "aborted", "exited" }
        /\ exit_status \notin { -1, 0 }
        /\ ~streaming
        /\ ops = [ dqbuf |-> 0, setplane |-> 0, qbuf |-> 0 ]
        /\ presented = << >>
        /\ plane_fb = 0

C13_Witness ==
    /\ fault = "qbuf_init"
    /\ pc = "aborted"
    /\ queued # << >>
    /\ Cardinality(fbs) = s.buffer_count

\* streaming has just been started: the producer has completed nothing and
\* the loop has re-submitted nothing
StreamingJustStarted == streaming /\ framesLeft = MaxFrames /\ ops.qbuf = 0

\* every buffer of the pool is created and plane resolution has succeeded
PoolAndTargetReady ==
    /\ Count(rlog, "addfb2") = s.buffer_count
    /\ Released = 0
    /\ s.crtcIdx >= 0
    /\ \E k \in 1..Len(planes) : planes[k].plane_id = s.planeId

\* C14: when streaming is started, the slots queued to the producer are
\* 0..N-1, each once, slot i bound to the descriptor of buffer i; and a slot
\* is only queued once the whole pool is created and the target is resolved.
C14_AllQueuedOnce ==
    /\ StreamingJustStarted =>
           /\ queued = [ k \in 1..s.buffer_count |-> k - 1 ]
           /\ DOMAIN slot_fd = Slots
           /\ \A b \in Slots :
                  slot_fd[b] = buffer[b].dbuf_fd /\ slot_fd[b] \in dmabufs
    /\ (pc \in { "qbuf", "streamon" } \/ queued # << >>) => PoolAndTargetReady

C14_Witness ==
    /\ StreamingJustStarted
    /\ pc = "poll"
    /\ s.buffer_count = 3

\* buffers buffer_create has returned 0 for
Created == Count(rlog, "addfb2")

\* the resource calls issued after those of the created buffers
CreateTail == SubSeq(rlog, 3 * Created + 1, Len(rlog))

\* the calls of a failed buffer_create: nothing, or the allocation and its
\* destruction, or allocation, export, close of the export, destruction
RolledBack(t) ==
    \/ t = << >>
    \/ /\ Len(t) = 2
       /\ t[1][1] = "create_dumb"
       /\ t[2] = << "destroy_dumb", t[1][2] >>
    \/ /\ Len(t) = 4
       /\ t[1][1] = "create_dumb"
       /\ t[2][1] = "prime"
       /\ t[3] = << "close", t[2][2] >>
       /\ t[4] = << "destroy_dumb", t[1][2] >>

\* C15: buffer_create is atomic for its own buffer: a failed call has released
\* what it had acquired, in reverse order (descriptor closed, then allocation
\* destroyed; nothing when the allocation failed), and a call that returned 0
\* holds its allocation, descriptor and framebuffer, none released.
C15_BufferCreateAtomic ==
    /\ \A b \in Slots :
           b < Created => /\ buffer[b].bo_handle \in gem
                          /\ buffer[b].dbuf_fd \in dmabufs
                          /\ buffer[b].fb_handle \in fbs
    /\ Cardinality(gem) = Created
    /\ Cardinality(dmabufs) = Created
    /\ Cardinality(fbs) = Created
    /\ IF fault = "buffer_create" THEN RolledBack(CreateTail)
                                  ELSE CreateTail = << >>

C15_Witness ==
    /\ fault = "buffer_create"
    /\ Created >= 1
    /\ Len(CreateTail) = 4

\* positions of the planes that can be used on the chosen CRTC and list the
\* layout find_plane looks for
EligiblePlanes(pl, st) ==
    { k \in 1..Len(pl) :
        /\ Bit(pl[k].possible_crtcs, st.crtcIdx)
        /\ \E j \in 1..Len(pl[k].formats) : pl[k].formats[j] = st.out_fourcc }

\* find_plane has returned 0: planeId is only written on success
PlaneResolved == s.planeId # 0

\* C16: find_plane fails exactly when no plane of the reported list is both
\* eligible for the chosen CRTC and lists the layout, and otherwise selects
\* the first such plane of the list (so the choice is a function of the list,
\* the CRTC and the layout).
C16_FirstMatchingPlane ==
    /\ fault = "find_plane" => EligiblePlanes(planes, s) = {}
    /\ PlaneResolved =>
           /\ EligiblePlanes(planes, s) # {}
           /\ \E k \in EligiblePlanes(planes, s) :
                  /\ \A j \in EligiblePlanes(planes, s) : k <= j
                  /\ s.planeId = planes[k].plane_id

C16_Witness ==
    /\ PlaneResolved
    /\ 1 \notin EligiblePlanes(planes, s)
    /\ Cardinality({ k \in 1..Len(planes) : s.out_fourcc \in Range(planes[k].formats) }) = 2

\* what pool construction and target resolution set up: the pool entries and
\* their resources, the pool size, the chosen plane and CRTC, the layouts
SessionSetup == << buffer, s, gem, dmabufs, fbs, rlog, planes >>

\* C17: no step taken while main is in the handoff loop changes the pool
\* entries, the buffers' resources, the pool size, the chosen plane or CRTC or
\* the session's layouts: the loop only moves the cursor and the slots.
C17_LoopKeepsSetup ==
    [][(pc \in LoopPcs) => UNCHANGED SessionSetup]_vars

C17_Witness ==
    /\ pc = "assign"
    /\ Len(resubmits) >= 2
    /\ Cardinality(fbs) = s.buffer_count

\* C18: for N >= 2 the loop never calls VIDIOC_QBUF on a slot the producer
\* already owns, so no re-submission is refused for that reason.
C18_NoDoubleQueue ==
    s.buffer_count >= 2 =>
        /\ (pc = "requeue" /\ stream.current_buffer # -1) =>
               stream.current_buffer \notin ProducerOwned
        /\ ~(fault = "qbuf" /\ ~envFault)

\* C19: for N >= 2, when a step of the loop is complete, the pool is exactly
\* one presented slot plus N - 1 slots queued to the producer: every slot is
\* either on the output or with the producer, none is stranded.
C19_NoneStranded ==
    (s.buffer_count >= 2 /\ streaming /\ pc = "poll" /\ presented # << >>) =>
        /\ Cardinality({ b \in Slots : Presenting(b) }) = 1
        /\ \A b \in Slots : Presenting(b) # QueuedToProducer(b)

\* layouts the pool's framebuffers were registered with
FbLayouts == { rlog[k][3] : k \in { j \in 1..Len(rlog) : rlog[j][1] = "addfb2" } }

\* planes usable on the chosen CRTC that list layout f
PlanesFor(pl, st, f) ==
    { k \in 1..Len(pl) :
        Bit(pl[k].possible_crtcs, st.crtcIdx) /\ f \in Range(pl[k].formats) }

\* C20: find_plane looks for the layout the framebuffers are registered
\* with: it does not fail while a plane usable on the chosen CRTC lists that
\* layout, and the plane it selects lists it.
C20_PlaneMatchesFbLayout ==
    \A f \in FbLayouts :
        /\ fault = "find_plane" => PlanesFor(planes, s, f) = {}
        /\ PlaneResolved =>
               \E k \in PlanesFor(planes, s, f) : planes[k].plane_id = s.planeId

====
